---- MODULE Spec2Model ----
(***************************************************************************)
(* The frame loop of src/src/main.cpp (Minecraft scene: a Creeper hunting  *)
(* Steve and a pig on a bounded map, with a day/night clock and a chase    *)
(* camera), as a state machine with one action per block of the loop body. *)
(*                                                                         *)
(* Units.  Lengths are in thousandths of a world unit, times in half       *)
(* seconds, pitch in degrees, yaw in quarter turns counted from its        *)
(* initial value of -90 radians, Euler angles of objects in milliradians,  *)
(* colour components in 1/6000.  With these units every quantity the loop  *)
(* computes for the frame times below is an integer.                       *)
(***************************************************************************)
EXTENDS Integers, Sequences, FiniteSets

VARIABLES
    objects,        \* myScene.objects: the vector, slot i at address i
    animators,      \* myScene.animators
    creeperRef,     \* Object3D* into objects: a slot number, 0 is nullptr
    steveRef,
    pigRef,
    sunRef,         \* Object3D* to child 0 of the sky node, "null" is nullptr
    creeperYaw,
    cameraPos,
    cameraFront,    \* [h |-> unit horizontal heading, p |-> elevation]
    yaw,
    pitch,
    sunTime,
    ambientColor,
    pigFleeDir,
    steveFleeDir,
    running,
    diff,           \* now - last of this tick
    deltaTime,      \* diff.asSeconds() as sampled at line 337
    pc,             \* the block of the loop body that runs next
    tick,           \* number of loop iterations started
    closeSeen,      \* history: a Closed event was polled in this tick
    animArg,        \* history: the argument of the last anim.tick(...) loop
    displayed,      \* history: number of window.display() calls
    rendered,       \* history: what the last rendering pass drew
    program,        \* the outcome of shader.load in texturingShader()
    exitStatus      \* <<>> while the process runs, <<s>> once it exited with s

vars == <<objects, animators, creeperRef, steveRef, pigRef, sunRef, creeperYaw,
          cameraPos, cameraFront, yaw, pitch, sunTime, ambientColor, pigFleeDir,
          steveFleeDir, running, diff, deltaTime, pc, tick, closeSeen, animArg,
          displayed, rendered, program, exitStatus>>

-----------------------------------------------------------------------------
(* Bounds of the model *)

MaxTicks == 3
GridHalf == 0

\* Frame times (half seconds) of the two specifications.
FrameTimes == {4, 13}
SlowFrameTimes == {60, 102}

-----------------------------------------------------------------------------
(* Program constants *)

mapMinX == -50000
mapMaxX == 50000
mapMinZ == -50000
mapMaxZ == 50000

NullRef == 0

-----------------------------------------------------------------------------
(* glm::vec3 *)

Vec(x, y, z) == <<x, y, z>>
VAdd(a, b) == <<a[1] + b[1], a[2] + b[2], a[3] + b[3]>>
VSub(a, b) == <<a[1] - b[1], a[2] - b[2], a[3] - b[3]>>
VScale(a, k) == <<a[1] * k, a[2] * k, a[3] * k>>
VNeg(a) == <<-a[1], -a[2], -a[3]>>
LengthSq(a) == a[1] * a[1] + a[2] * a[2] + a[3] * a[3]

\* glm::mix(a, b, k/60) with a, b in hundredths: the result is in 1/6000.
Mix(a, b, k) == <<a[1] * (60 - k) + b[1] * k,
                  a[2] * (60 - k) + b[2] * k,
                  a[3] * (60 - k) + b[3] * k>>

White == <<100, 100, 100>>
Orange == <<100, 60, 20>>
Night == <<5, 5, 10>>

\* atan2(x, z) in milliradians, on the directions the loop can produce.
Atan2(x, z) ==
    CASE x = 0 /\ z > 0 -> 0
      [] x = 0 /\ z < 0 -> 3142
      [] x > 0 /\ z = 0 -> 1571
      [] x < 0 /\ z = 0 -> -1571
      [] x = -448 /\ z = -894 -> -2677
      [] x = 894 /\ z = -448 -> 2035
      [] x = 448 /\ z = 894 -> 465
      [] x = -894 /\ z = 448 -> -1106
      [] OTHER -> 0

\* (cos(yaw), sin(yaw)) in thousandths; yaw is -90 rad plus q quarter turns.
YawDir(q) ==
    CASE q % 4 = 0 -> <<-448, -894>>
      [] q % 4 = 1 -> <<894, -448>>
      [] q % 4 = 2 -> <<448, 894>>
      [] q % 4 = 3 -> <<-894, 448>>

-----------------------------------------------------------------------------
(* Object3D: local transform, name tag and owned children.  The field id   *)
(* is the identity of the constructed object (it travels with the value    *)
(* when the vector move-assigns elements); name is what getName() returns. *)

Object3D(id, position, orientation, children) ==
    [id |-> id, name |-> "", position |-> position,
     orientation |-> orientation, children |-> children]

setName(o, n) == [o EXCEPT !.name = n]
getPosition(o) == o.position
setPosition(o, p) == [o EXCEPT !.position = p]
setOrientation(o, r) == [o EXCEPT !.orientation = r]
move(o, d) == [o EXCEPT !.position = VAdd(o.position, d)]

\* *ref for a pointer into the vector: the element in that slot.  A pointer
\* that designates no element (nullptr, or a slot past the end) reads an
\* indeterminate object; no block of the loop does so behind its guard.
Deref(objs, ref) ==
    IF ref \in DOMAIN objs THEN objs[ref]
    ELSE Object3D("indeterminate", Vec(0, 0, 0), Vec(0, 0, 0), <<>>)

\* A write through such a pointer: the element in that slot becomes o.
Assign(objs, ref, o) == [i \in DOMAIN objs |-> IF i = ref THEN o ELSE objs[i]]

-----------------------------------------------------------------------------
(* minecraftScene() *)

GridSide == 2 * GridHalf + 1
NumTiles == GridSide * GridSide

Tile(k) ==
    Object3D("tile",
             Vec((((k - 1) \div GridSide) - GridHalf) * 1000, -1500,
                 (((k - 1) % GridSide) - GridHalf) * 1000),
             Vec(-1571, 0, 0), <<>>)

Tiles == [k \in 1..NumTiles |-> Tile(k)]

Steve0 == Object3D("Steve", Vec(0, 0, 6000), Vec(0, 3142, 0), <<>>)
Pig0 == Object3D("pig", Vec(0, 0, -6000), Vec(0, 3142, 0), <<>>)
Sun0 == Object3D("sun", Vec(-30000, 40000, -20000), Vec(0, 0, 0), <<>>)
Cloud0 == Object3D("cloud", Vec(-25000, 42000, -22000), Vec(0, 0, 0), <<>>)
Sky0 == Object3D("sky", Vec(0, 0, 0), Vec(0, 0, 0), <<Sun0, Cloud0>>)
Creeper0 == setName(Object3D("Creeper", Vec(0, 0, 0), Vec(0, 0, 0), <<>>), "Creeper")

SceneObjects == Tiles \o <<Steve0, Pig0, Sky0, Creeper0>>

Init ==
    /\ objects = SceneObjects
    /\ animators = <<>>
    /\ steveRef = NumTiles + 1
    /\ pigRef = NumTiles + 2
    /\ sunRef = "sun"
    /\ creeperRef = NumTiles + 4
    /\ creeperYaw = 0
    /\ cameraPos = Vec(0, 1000, 5000)
    /\ cameraFront = [h |-> <<0, -1000>>, p |-> -11]
    /\ yaw = 0
    /\ pitch = 0
    /\ sunTime = 0
    /\ ambientColor = VScale(White, 60)
    /\ pigFleeDir = Vec(1, 0, 0)
    /\ steveFleeDir = Vec(-1, 0, 0)
    /\ running = TRUE
    /\ diff = 0
    /\ deltaTime = 0
    /\ pc = "poll"
    /\ tick = 0
    /\ closeSeen = FALSE
    /\ animArg = 0
    /\ displayed = 0
    /\ rendered = <<>>
    /\ program = "loaded"
    /\ exitStatus = <<>>

-----------------------------------------------------------------------------
(* Process start: the globals as initialised, then main up to the loop     *)
(* (lines 281-320), which builds the scene with minecraftScene().          *)

\* The state before main runs: no scene yet, every named reference null.
InitMain ==
    /\ objects = <<>>
    /\ animators = <<>>
    /\ steveRef = NullRef
    /\ pigRef = NullRef
    /\ sunRef = "null"
    /\ creeperRef = NullRef
    /\ creeperYaw = 0
    /\ cameraPos = Vec(0, 1000, 5000)
    /\ cameraFront = [h |-> <<0, -1000>>, p |-> -11]
    /\ yaw = 0
    /\ pitch = 0
    /\ sunTime = 0
    /\ ambientColor = VScale(White, 60)
    /\ pigFleeDir = Vec(1, 0, 0)
    /\ steveFleeDir = Vec(-1, 0, 0)
    /\ running = FALSE
    /\ diff = 0
    /\ deltaTime = 0
    /\ pc = "main"
    /\ tick = 0
    /\ closeSeen = FALSE
    /\ animArg = 0
    /\ displayed = 0
    /\ rendered = <<>>
    /\ program = "unloaded"
    /\ exitStatus = <<>>

\* shader.load(...): it returns, or throws std::runtime_error.
ShaderLoad(ok) == IF ok THEN "loaded" ELSE "failed"

ExitOfLoadUncaught(p) == <<>>

\* texturingShader(): the catch clause calls exit(1); otherwise no exit.
ExitOfLoad(p) == IF p = "failed" THEN <<1>> ELSE <<>>

Startup(ok) ==
    /\ pc = "main"
    /\ program' = ShaderLoad(ok)
    /\ exitStatus' = ExitOfLoad(ShaderLoad(ok))
    /\ IF ExitOfLoad(ShaderLoad(ok)) = <<>>
       THEN /\ objects' = SceneObjects
            /\ steveRef' = NumTiles + 1
            /\ pigRef' = NumTiles + 2
            /\ sunRef' = "sun"
            /\ creeperRef' = NumTiles + 4
            /\ running' = TRUE
            /\ pc' = "poll"
       ELSE /\ pc' = "exit"
            /\ UNCHANGED <<objects, steveRef, pigRef, sunRef, creeperRef, running>>
    /\ UNCHANGED <<animators, creeperYaw, cameraPos, cameraFront, yaw, pitch,
                   sunTime, ambientColor, pigFleeDir, steveFleeDir, diff,
                   deltaTime, tick, closeSeen, animArg, displayed, rendered>>

Main == \E ok \in BOOLEAN : Startup(ok)

-----------------------------------------------------------------------------
(* Loop head: event polling and the frame-time sample (lines 324-337) *)

Poll(close, dt) ==
    /\ pc = "poll"
    /\ tick < MaxTicks
    /\ tick' = tick + 1
    /\ closeSeen' = close
    /\ running' = IF close THEN FALSE ELSE running
    /\ diff' = dt
    /\ deltaTime' = dt
    /\ pc' = "clock"
    /\ UNCHANGED <<objects, animators, creeperRef, steveRef, pigRef, sunRef,
                   creeperYaw, cameraPos, cameraFront, yaw, pitch, sunTime,
                   ambientColor, pigFleeDir, steveFleeDir, animArg, displayed,
                   rendered,
                   program, exitStatus>>

PollEvents == \E close \in BOOLEAN, dt \in FrameTimes : Poll(close, dt)

PollEventsSlow == \E close \in BOOLEAN, dt \in SlowFrameTimes : Poll(close, dt)

-----------------------------------------------------------------------------
(* Day clock and ambient colour (lines 339-355) *)

ClockAfterModulo(s) == s % 180

\* The value of sunTime after the if/else chain, given the accumulated value.
ClockAfter(s) == IF s < 180 THEN s ELSE 0

\* The value of ambientColor after the if/else chain.
AmbientAfter(s, old) ==
    IF s < 60 THEN Mix(White, Orange, s)
    ELSE IF s < 120 THEN Mix(Orange, Night, s - 60)
    ELSE IF s < 180 THEN Mix(Night, White, s - 120)
    ELSE old

Clock ==
    /\ pc = "clock"
    /\ sunTime' = ClockAfter(sunTime + deltaTime)
    /\ ambientColor' = AmbientAfter(sunTime + deltaTime, ambientColor)
    /\ pc' = "sun"
    /\ UNCHANGED <<objects, animators, creeperRef, steveRef, pigRef, sunRef,
                   creeperYaw, cameraPos, cameraFront, yaw, pitch, pigFleeDir,
                   steveFleeDir, running, diff, deltaTime, tick, closeSeen,
                   animArg, displayed, rendered,
                   program, exitStatus>>

-----------------------------------------------------------------------------
(* Sun sweep (lines 358-367) *)

SunXHiddenEarly(s) ==
    LET x == -30000 + 500 * s
    IN  IF x >= 30000 THEN 1000000 ELSE x

SunX(s) ==
    LET x == -30000 + 500 * s
    IN  IF x > 30000 THEN 1000000 ELSE x

\* sunRef->setPosition(p): the sun is child 0 of whichever element holds it.
SetSun(objs, p) ==
    [i \in DOMAIN objs |->
        IF Len(objs[i].children) > 0 /\ objs[i].children[1].id = "sun"
        THEN [objs[i] EXCEPT !.children[1] = setPosition(@, p)]
        ELSE objs[i]]

SunSweep ==
    /\ pc = "sun"
    /\ objects' = IF sunRef # "null"
                  THEN SetSun(objects, Vec(SunX(sunTime), 40000, -20000))
                  ELSE objects
    /\ pc' = "look"
    /\ UNCHANGED <<animators, creeperRef, steveRef, pigRef, sunRef, creeperYaw,
                   cameraPos, cameraFront, yaw, pitch, sunTime, ambientColor,
                   pigFleeDir, steveFleeDir, running, diff, deltaTime, tick,
                   closeSeen, animArg, displayed, rendered,
                   program, exitStatus>>

-----------------------------------------------------------------------------
(* Camera look keys W/S/A/D (lines 373-388); sensitivity is 180 degrees    *)
(* per second, that is 90 degrees or one quarter turn per half second.     *)

PitchUp(p, dt) == IF p + 90 * dt > 89 THEN 89 ELSE p + 90 * dt
PitchDownUnclamped(p, dt) == p - 90 * dt
PitchDown(p, dt) == IF p - 90 * dt < -89 THEN -89 ELSE p - 90 * dt

PitchAfter(p, keys, dt) ==
    LET p1 == IF "W" \in keys THEN PitchUp(p, dt) ELSE p
    IN  IF "S" \in keys THEN PitchDown(p1, dt) ELSE p1

YawAfter(y, keys, dt) ==
    LET y1 == IF "A" \in keys THEN y - dt ELSE y
        y2 == IF "D" \in keys THEN y1 + dt ELSE y1
    IN  y2 % 4

Look(keys) ==
    /\ pc = "look"
    /\ pitch' = PitchAfter(pitch, keys, deltaTime)
    /\ yaw' = YawAfter(yaw, keys, deltaTime)
    /\ pc' = "hunter"
    /\ UNCHANGED <<objects, animators, creeperRef, steveRef, pigRef, sunRef,
                   creeperYaw, cameraPos, cameraFront, sunTime, ambientColor,
                   pigFleeDir, steveFleeDir, running, diff, deltaTime, tick,
                   closeSeen, animArg, displayed, rendered,
                   program, exitStatus>>

LookKeys == \E keys \in SUBSET {"W", "S", "A", "D"} : Look(keys)

-----------------------------------------------------------------------------
(* Creeper movement and camera placement (lines 390-435) *)

\* The sign of cos(p), p in degrees.
CosSign(p) ==
    LET r == p % 360
    IN  IF r < 90 \/ r > 270 THEN 1 ELSE IF r = 90 \/ r = 270 THEN 0 ELSE -1

\* glm::normalize(vec3(front.x, 0, front.z)) for front = (h cos p, sin p).
Horizontal(front) ==
    Vec(front.h[1] * CosSign(front.p), 0, front.h[2] * CosSign(front.p))

\* The direction each arrow key moves the Creeper in.
KeyDir(key, front) ==
    LET f == Horizontal(front)
    IN  CASE key = "Up" -> f
          [] key = "Down" -> VNeg(f)
          [] key = "Left" -> Vec(f[3], 0, -f[1])
          [] key = "Right" -> Vec(-f[3], 0, f[1])

\* One if-block of lines 393-420: move by dir * deltaTime * 2.0 and face dir.
KeyMove(o, key, keys, front, dt) ==
    IF key \in keys
    THEN setOrientation(move(o, VScale(KeyDir(key, front), dt)),
                        Vec(0, Atan2(KeyDir(key, front)[1], KeyDir(key, front)[3]), 0))
    ELSE o

HunterAfter(o, keys, front, dt) ==
    KeyMove(KeyMove(KeyMove(KeyMove(o, "Up", keys, front, dt),
                            "Down", keys, front, dt),
                    "Left", keys, front, dt),
            "Right", keys, front, dt)

\* cameraFront as recomputed from yaw and pitch (lines 423-427).
FrontOf(y, p) == [h |-> YawDir(y), p |-> p]

\* Lines 430-432; creeperPos is the local of line 391.
ChaseCamera(creeperPos, front) ==
    VAdd(creeperPos, VAdd(VScale(Horizontal(front), -5), Vec(0, 3000, 0)))

Hunter(keys) ==
    /\ pc = "hunter"
    /\ IF creeperRef # NullRef
       THEN LET creeperPos == getPosition(Deref(objects, creeperRef))
                moved == HunterAfter(Deref(objects, creeperRef), keys, cameraFront, deltaTime)
            IN  /\ objects' = Assign(objects, creeperRef, moved)
                /\ creeperYaw' = IF keys = {} THEN creeperYaw ELSE moved.orientation[2]
                /\ cameraFront' = FrontOf(yaw, pitch)
                /\ cameraPos' = ChaseCamera(creeperPos, FrontOf(yaw, pitch))
       ELSE UNCHANGED <<objects, creeperYaw, cameraFront, cameraPos>>
    /\ pc' = "steveFlee"
    /\ UNCHANGED <<animators, creeperRef, steveRef, pigRef, sunRef, yaw, pitch,
                   sunTime, ambientColor, pigFleeDir, steveFleeDir, running,
                   diff, deltaTime, tick, closeSeen, animArg, displayed,
                   rendered,
                   program, exitStatus>>

\* The arrow-key states sampled in one tick: none, or one key held.
ArrowChoices == {{}, {"Up"}, {"Down"}, {"Left"}, {"Right"}}

ArrowKeys == \E keys \in ArrowChoices : Hunter(keys)

-----------------------------------------------------------------------------
(* Flee step of a target (lines 438-451 and 474-489); speed 1.0 *)

Proposed(pos, dir, dt) == VAdd(pos, VScale(dir, 500 * dt))

OutsideX(p) == p[1] < mapMinX \/ p[1] > mapMaxX
OutsideZ(p) == p[3] < mapMinZ \/ p[3] > mapMaxZ

BounceDoubling(pos, dir, dt) ==
    LET q == Proposed(pos, dir, dt)
    IN  Vec(IF OutsideX(q) THEN -2 * dir[1] ELSE dir[1],
            dir[2],
            IF OutsideZ(q) THEN -2 * dir[3] ELSE dir[3])

\* The flee direction after the two boundary checks.
Bounce(pos, dir, dt) ==
    LET q == Proposed(pos, dir, dt)
    IN  Vec(IF OutsideX(q) THEN -dir[1] ELSE dir[1],
            dir[2],
            IF OutsideZ(q) THEN -dir[3] ELSE dir[3])

\* The target after setPosition and setOrientation.
Fled(o, dir, dt) ==
    LET d == Bounce(o.position, dir, dt)
    IN  setOrientation(setPosition(o, Proposed(o.position, d, dt)),
                       Vec(0, Atan2(d[1], d[3]), 0))

Abs(x) == IF x < 0 THEN -x ELSE x

\* glm::length(a - b) < 0.8f, compared as squares; a vector with a component
\* of 0.8 or more is not shorter than 0.8 (and its square is never formed).
Near(a, b) ==
    LET d == VSub(getPosition(a), getPosition(b))
    IN  /\ Abs(d[1]) < 800 /\ Abs(d[2]) < 800 /\ Abs(d[3]) < 800
        /\ LengthSq(d) < 800 * 800

EraseSwapWithLast(objs, ref) ==
    [i \in 1..(Len(objs) - 1) |-> IF i = ref THEN objs[Len(objs)] ELSE objs[i]]

\* erase(remove_if(...)) with the predicate &obj == ref: the element in the
\* slot ref goes, the later ones are move-assigned one slot down.
EraseSlot(objs, ref) ==
    [i \in 1..(Len(objs) - 1) |-> IF i < ref THEN objs[i] ELSE objs[i + 1]]

RECURSIVE FindName(_, _, _)
FindName(objs, n, i) ==
    IF i > Len(objs) THEN 0
    ELSE IF objs[i].name = n THEN i
    ELSE FindName(objs, n, i + 1)

RelinkSkipped(objs, old) == old

\* The re-link loop: creeperRef after scanning objs for the name "Creeper".
Relink(objs, old) ==
    IF FindName(objs, "Creeper", 1) # 0 THEN FindName(objs, "Creeper", 1) ELSE old

SteveLiveUnguarded == creeperRef # NullRef

\* The guards of the two target blocks (lines 437 and 473).
SteveLive == creeperRef # NullRef /\ steveRef # NullRef
PigLive == creeperRef # NullRef /\ pigRef # NullRef

SteveFlee ==
    /\ pc = "steveFlee"
    /\ IF SteveLive
       THEN /\ steveFleeDir' = Bounce(getPosition(Deref(objects, steveRef)), steveFleeDir, deltaTime)
            /\ objects' = Assign(objects, steveRef, Fled(Deref(objects, steveRef), steveFleeDir, deltaTime))
            /\ pc' = "steveExplode"
       ELSE /\ UNCHANGED <<steveFleeDir, objects>>
            /\ pc' = "pigFlee"
    /\ UNCHANGED <<animators, creeperRef, steveRef, pigRef, sunRef, creeperYaw,
                   cameraPos, cameraFront, yaw, pitch, sunTime, ambientColor,
                   pigFleeDir, running, diff, deltaTime, tick, closeSeen,
                   animArg, displayed, rendered,
                   program, exitStatus>>

SteveExplode ==
    /\ pc = "steveExplode"
    /\ IF Near(Deref(objects, creeperRef), Deref(objects, steveRef))
       THEN /\ objects' = EraseSlot(objects, steveRef)
            /\ steveRef' = NullRef
            /\ creeperRef' = Relink(EraseSlot(objects, steveRef), creeperRef)
       ELSE UNCHANGED <<objects, steveRef, creeperRef>>
    /\ pc' = "pigFlee"
    /\ UNCHANGED <<animators, pigRef, sunRef, creeperYaw, cameraPos,
                   cameraFront, yaw, pitch, sunTime, ambientColor, pigFleeDir,
                   steveFleeDir, running, diff, deltaTime, tick, closeSeen,
                   animArg, displayed, rendered,
                   program, exitStatus>>

PigFlee ==
    /\ pc = "pigFlee"
    /\ IF PigLive
       THEN /\ pigFleeDir' = Bounce(getPosition(Deref(objects, pigRef)), pigFleeDir, deltaTime)
            /\ objects' = Assign(objects, pigRef, Fled(Deref(objects, pigRef), pigFleeDir, deltaTime))
            /\ pc' = "pigExplode"
       ELSE /\ UNCHANGED <<pigFleeDir, objects>>
            /\ pc' = "animate"
    /\ UNCHANGED <<animators, creeperRef, steveRef, pigRef, sunRef, creeperYaw,
                   cameraPos, cameraFront, yaw, pitch, sunTime, ambientColor,
                   steveFleeDir, running, diff, deltaTime, tick, closeSeen,
                   animArg, displayed, rendered,
                   program, exitStatus>>

PigExplode ==
    /\ pc = "pigExplode"
    /\ IF Near(Deref(objects, creeperRef), Deref(objects, pigRef))
       THEN /\ objects' = EraseSlot(objects, pigRef)
            /\ pigRef' = NullRef
            /\ creeperRef' = Relink(EraseSlot(objects, pigRef), creeperRef)
       ELSE UNCHANGED <<objects, pigRef, creeperRef>>
    /\ pc' = "animate"
    /\ UNCHANGED <<animators, steveRef, sunRef, creeperYaw, cameraPos,
                   cameraFront, yaw, pitch, sunTime, ambientColor, pigFleeDir,
                   steveFleeDir, running, diff, deltaTime, tick, closeSeen,
                   animArg, displayed, rendered,
                   program, exitStatus>>

-----------------------------------------------------------------------------
(* Animator ticking, rendering and the termination check (lines 519-556) *)

\* Animator::tick(dt) on one animator.
AnimatorTick(a, dt) == [a EXCEPT !.elapsed = @ + dt]

TickArgResampled == diff + 1

\* The argument of anim.tick(...) at line 538.
TickArg == diff

Animate ==
    /\ pc = "animate"
    /\ animators' = [i \in DOMAIN animators |-> AnimatorTick(animators[i], TickArg)]
    /\ animArg' = TickArg
    /\ pc' = "render"
    /\ UNCHANGED <<objects, creeperRef, steveRef, pigRef, sunRef, creeperYaw,
                   cameraPos, cameraFront, yaw, pitch, sunTime, ambientColor,
                   pigFleeDir, steveFleeDir, running, diff, deltaTime, tick,
                   closeSeen, displayed, rendered,
                   program, exitStatus>>

\* What one pass of the render loop draws: every element, in list order.
Drawn(objs) == [i \in DOMAIN objs |-> [id |-> objs[i].id, position |-> objs[i].position]]

Render ==
    /\ pc = "render"
    /\ rendered' = [frame |-> tick, objects |-> Drawn(objects),
                    color |-> ambientColor, camera |-> cameraPos]
    /\ displayed' = displayed + 1
    /\ pc' = "term"
    /\ UNCHANGED <<objects, animators, creeperRef, steveRef, pigRef, sunRef,
                   creeperYaw, cameraPos, cameraFront, yaw, pitch, sunTime,
                   ambientColor, pigFleeDir, steveFleeDir, running, diff,
                   deltaTime, tick, closeSeen, animArg,
                   program, exitStatus>>

\* Lines 553-556; a loop that has ended falls through to return 0 (line 560).
TargetsGone == steveRef = NullRef /\ pigRef = NullRef

Terminate ==
    /\ pc = "term"
    /\ running' = IF TargetsGone THEN FALSE ELSE running
    /\ pc' = IF running' THEN "poll" ELSE "done"
    /\ exitStatus' = IF running' THEN exitStatus ELSE <<0>>
    /\ UNCHANGED <<objects, animators, creeperRef, steveRef, pigRef, sunRef,
                   creeperYaw, cameraPos, cameraFront, yaw, pitch, sunTime,
                   ambientColor, pigFleeDir, steveFleeDir, diff, deltaTime,
                   tick, closeSeen, animArg, displayed, rendered, program>>

-----------------------------------------------------------------------------

Body ==
    \/ Clock \/ SunSweep \/ LookKeys \/ ArrowKeys
    \/ SteveFlee \/ SteveExplode \/ PigFlee \/ PigExplode
    \/ Animate \/ Render \/ Terminate

Next == PollEvents \/ Body

NextSlow == PollEventsSlow \/ Body

Spec == Init /\ [][Next]_vars

SpecSlow == Init /\ [][NextSlow]_vars

\* The whole process, from the start of main.
NextMain == Main \/ Next

SpecMain == InitMain /\ [][NextMain]_vars

-----------------------------------------------------------------------------
(* Vocabulary of the properties *)

InScene(id) == \E i \in DOMAIN objects : objects[i].id = id
ObjectOf(id) == objects[CHOOSE i \in DOMAIN objects : objects[i].id = id]

\* The blocks that follow the Steve block, resp. the pig block, within a tick.
AfterSteveBlock == {"pigFlee", "pigExplode", "animate", "render", "term"}
AfterPigBlock == {"animate", "render", "term"}

\* The loop is between two ticks, or has ended.
TickEnded == pc \in {"poll", "done"} /\ tick > 0

InMap(p) == ~OutsideX(p) /\ ~OutsideZ(p)

-----------------------------------------------------------------------------
(* C1. Target removal.  Once the Steve block (resp. the pig block) of a    *)
(* tick is over, a target still in the object list is at distance 0.8 or   *)
(* more from the Creeper: one closer than 0.8 after its flee step was      *)
(* erased in that tick.  A target is in the list exactly as long as its    *)
(* reference is non-null, nothing but the two targets ever leaves the      *)
(* list, and creeperRef designates the element named "Creeper".            *)
C1_TargetRemoval ==
    /\ (pc \in AfterSteveBlock /\ InScene("Steve"))
          => ~Near(ObjectOf("Creeper"), ObjectOf("Steve"))
    /\ (pc \in AfterPigBlock /\ InScene("pig"))
          => ~Near(ObjectOf("Creeper"), ObjectOf("pig"))
    /\ (steveRef = NullRef) <=> ~InScene("Steve")
    /\ (pigRef = NullRef) <=> ~InScene("pig")
    /\ InScene("sky") /\ InScene("Creeper")
    /\ Len(objects) = NumTiles + 2 + (IF InScene("Steve") THEN 1 ELSE 0)
                                   + (IF InScene("pig") THEN 1 ELSE 0)
    /\ creeperRef \in DOMAIN objects /\ objects[creeperRef].name = "Creeper"

(* C2. Loop termination.  At the end of a tick the loop has exited if and  *)
(* only if a close event was polled in that tick or neither Steve nor the  *)
(* pig is an element of the object list any more.                          *)
C2_LoopTermination ==
    TickEnded =>
        ((pc = "done") <=> (closeSeen \/ (~InScene("Steve") /\ ~InScene("pig"))))

(* C3. Boundary containment.  At the end of every tick, each fleeing       *)
(* target still in the scene is inside [-50, 50] on X and on Z, whatever   *)
(* the frame time was.                                                     *)
C3_BoundaryContainment ==
    TickEnded =>
        \A i \in DOMAIN objects :
            objects[i].id \in {"Steve", "pig"} => InMap(objects[i].position)

\* The colour the day clock reading s stands for.
ColourOfClock(s) ==
    CASE 0 <= s /\ s < 60 -> Mix(White, Orange, s)
      [] 60 <= s /\ s < 120 -> Mix(Orange, Night, s - 60)
      [] 120 <= s /\ s < 180 -> Mix(Night, White, s - 120)

(* C4. Day/night colour is a function of the day clock: ambientColor is    *)
(* the three-phase blend of the current clock reading, in particular pure  *)
(* white whenever the clock reads 0, the wrap tick included.               *)
C4_ColourFollowsClock ==
    pc # "clock" => ambientColor = ColourOfClock(sunTime)

(* C5. Chase camera.  At the end of every tick the camera is at the        *)
(* Creeper's current position plus -5 x horizontalForward + (0, 3, 0),     *)
(* with horizontalForward taken from the cameraFront of this tick.         *)
C5_ChaseCamera ==
    (TickEnded /\ InScene("Creeper")) =>
        cameraPos = VAdd(ObjectOf("Creeper").position,
                         VAdd(VScale(Horizontal(cameraFront), -5), Vec(0, 3000, 0)))

-----------------------------------------------------------------------------

Ids(objs) == {objs[i].id : i \in DOMAIN objs}

(* C6. Removed is terminal.  Once steveRef (resp. pigRef) is null it stays *)
(* null, the target's block is skipped (its proximity check is never       *)
(* reached and its flee direction never changes again), and the object     *)
(* list never grows nor gets back an object it lost.                       *)
C6_RemovedIsTerminal ==
    [][/\ (steveRef = NullRef) =>
              (steveRef' = NullRef /\ pc' # "steveExplode" /\ steveFleeDir' = steveFleeDir)
       /\ (pigRef = NullRef) =>
              (pigRef' = NullRef /\ pc' # "pigExplode" /\ pigFleeDir' = pigFleeDir)
       /\ Len(objects') <= Len(objects)
       /\ Ids(objects') \subseteq Ids(objects)]_vars

\* A later tick has passed the Steve block with Steve removed.
C6_Witness ==
    /\ steveRef = NullRef /\ pigRef # NullRef /\ pc = "pigFlee"
    /\ rendered # <<>> /\ Len(rendered.objects) = NumTiles + 3

(* C7. Erase frame condition.  The object list changes length only in a    *)
(* proximity step, and then by exactly one: one slot k goes, the elements  *)
(* before it stay where they are and the ones after it move one slot down, *)
(* each with its name, position, orientation and children unchanged.       *)
C7_EraseFrame ==
    [][(Len(objects') # Len(objects)) =>
          /\ pc \in {"steveExplode", "pigExplode"}
          /\ Len(objects') = Len(objects) - 1
          /\ \E k \in DOMAIN objects :
                /\ \A i \in 1..(k - 1) : objects'[i] = objects[i]
                /\ \A i \in k..Len(objects') : objects'[i] = objects[i + 1]]_vars

\* Steve has just been erased: the last frame drawn still had him.
C7_Witness ==
    /\ pc = "pigFlee" /\ steveRef = NullRef /\ Len(objects) = NumTiles + 3
    /\ rendered # <<>> /\ Len(rendered.objects) = NumTiles + 4

SunPosition == ObjectOf("sky").children[1].position

C9_PitchClamp == -89 <= pitch /\ pitch <= 89

\* S held with the pitch at the upper limit: the lower clamp acted.
C9_Witness == pc = "hunter" /\ pitch = -89 /\ cameraFront.p = 89

Order == <<"poll", "clock", "sun", "look", "hunter", "steveFlee", "steveExplode",
           "pigFlee", "pigExplode", "animate", "render", "term">>

\* b is the block that may follow block a.
Follows(a, b) ==
    \/ \E i \in 1..(Len(Order) - 1) : Order[i] = a /\ Order[i + 1] = b
    \/ a = "steveFlee" /\ b = "pigFlee"
    \/ a = "pigFlee" /\ b = "animate"
    \/ a = "term" /\ b \in {"poll", "done"}

Gameplay == <<objects, creeperRef, steveRef, pigRef, sunRef, creeperYaw, cameraPos,
              cameraFront, yaw, pitch, sunTime, ambientColor, pigFleeDir, steveFleeDir>>

(* C10. Tick ordering.  The blocks of a tick run in the fixed order event  *)
(* polling, clock, sun, camera, hunter, Steve, pig, animators, rendering,  *)
(* termination check, none but a target's proximity check skipped; the     *)
(* frame time is sampled once per tick and the animators get that sample;  *)
(* nothing of the gameplay state changes from the animator step on, the    *)
(* rendering pass draws the object list as the updates left it, and the    *)
(* loop exits only after the termination check of a tick that was drawn.   *)
C10_TickOrdering ==
    [][/\ Follows(pc, pc')
       /\ (pc # "poll") => (deltaTime' = deltaTime /\ diff' = diff /\ tick' = tick)
       /\ (pc = "animate") => animArg' = deltaTime
       /\ (pc \in {"animate", "render", "term"}) => Gameplay' = Gameplay
       /\ (pc = "render") =>
              /\ rendered'.objects = Drawn(objects) /\ rendered'.frame = tick
              /\ displayed' = displayed + 1
       /\ (pc' = "done") => (displayed' = tick' /\ rendered'.frame = tick')]_vars

\* The loop has exited at the end of a tick in which the window was closed.
C10_Witness ==
    pc = "done" /\ closeSeen /\ displayed = tick /\ rendered.frame = tick

-----------------------------------------------------------------------------
(* C11. Exit status.  The process exits with status 1 exactly when the     *)
(* shader load of scene construction failed, and then before any tick of   *)
(* the frame loop; it exits with status 0 exactly when the frame loop has  *)
(* ended, by a close event or by both target references being null; it has *)
(* no other exit status, and has not exited anywhere else.                 *)
C11_ExitStatus ==
    /\ (exitStatus = <<1>>) <=> (program = "failed")
    /\ (exitStatus = <<1>>) => (tick = 0 /\ objects = <<>> /\ pc = "exit")
    /\ (exitStatus = <<0>>) <=> (pc = "done")
    /\ (pc = "done") => (tick > 0 /\ program = "loaded" /\ (closeSeen \/ TargetsGone))
    /\ exitStatus \in {<<>>, <<0>>, <<1>>}
    /\ (exitStatus = <<>>) <=> (pc \notin {"exit", "done"})

\* The shader load failed: the process is gone before the first tick.
C11_Witness == exitStatus = <<1>> /\ program = "failed" /\ tick = 0

-----------------------------------------------------------------------------

\* The element of objs constructed as id.
ObjectIn(objs, id) == objs[CHOOSE i \in DOMAIN objs : objs[i].id = id]

\* d with the X (resp. Z) component negated iff the X (resp. Z) coordinate
\* of p + d x 1.0 x dt is outside [-50, 50].
Reflected(p, d, dt) ==
    Vec(IF p[1] + d[1] * 500 * dt < -50000 \/ p[1] + d[1] * 500 * dt > 50000
        THEN -d[1] ELSE d[1],
        d[2],
        IF p[3] + d[3] * 500 * dt < -50000 \/ p[3] + d[3] * 500 * dt > 50000
        THEN -d[3] ELSE d[3])

\* The flee block of this tick treats the target id, at p heading d, as the
\* reflection rule says.
FleesByReflection(id, p, d, dNext, objsNext, dt) ==
    /\ dNext = Reflected(p, d, dt)
    /\ \E i \in DOMAIN objsNext : objsNext[i].id = id
    /\ ObjectIn(objsNext, id).position = VAdd(p, VScale(dNext, 500 * dt))
    /\ ObjectIn(objsNext, id).orientation = Vec(0, Atan2(dNext[1], dNext[3]), 0)

(* C12. Flee step is a reflection.  In each tick, for each target still in *)
(* the scene, with p its position at the start of the tick and d its flee  *)
(* direction, the target's block negates the X (resp. Z) component of d    *)
(* iff that coordinate of p + d x dt is outside [-50, 50], commits the     *)
(* target at exactly p + d' x dt for the resulting direction d', and sets  *)
(* its orientation to (0, atan2(d'.x, d'.z), 0).                           *)
C12_FleeReflection ==
    [][/\ (pc = "steveFlee" /\ InScene("Steve")) =>
              FleesByReflection("Steve", ObjectOf("Steve").position, steveFleeDir,
                                steveFleeDir', objects', deltaTime)
       /\ (pc = "pigFlee" /\ InScene("pig")) =>
              FleesByReflection("pig", ObjectOf("pig").position, pigFleeDir,
                                pigFleeDir', objects', deltaTime)]_vars

-----------------------------------------------------------------------------

UnitX == {Vec(1, 0, 0), Vec(-1, 0, 0)}

\* Every element keeps its Y and Z coordinate from objs to objsNext.
KeepsYZ(objs, objsNext) ==
    /\ DOMAIN objsNext = DOMAIN objs
    /\ \A i \in DOMAIN objs :
          /\ objsNext[i].position[2] = objs[i].position[2]
          /\ objsNext[i].position[3] = objs[i].position[3]

(* C13. Flee directions stay unit and horizontal.  steveFleeDir and        *)
(* pigFleeDir are always (1,0,0) or (-1,0,0); a flee step leaves each      *)
(* direction as it was or negated, with Y component 0, and changes neither *)
(* the Y nor the Z coordinate of any object, the one it moves included.    *)
C13_FleeDirections ==
    /\ [](steveFleeDir \in UnitX /\ pigFleeDir \in UnitX)
    /\ [][/\ steveFleeDir' \in {steveFleeDir, VNeg(steveFleeDir)}
          /\ pigFleeDir' \in {pigFleeDir, VNeg(pigFleeDir)}
          /\ (pc \in {"steveFlee", "pigFlee"}) => KeepsYZ(objects, objects')]_vars

\* Steve has bounced off the -X edge and the pig off the +X edge.
C13_Witness ==
    /\ steveFleeDir = Vec(1, 0, 0) /\ pigFleeDir = Vec(-1, 0, 0)
    /\ pc = "animate" /\ InScene("Steve") /\ InScene("pig")
    /\ ObjectOf("Steve").position[3] = 6000 /\ ObjectOf("pig").position[3] = -6000

-----------------------------------------------------------------------------

\* The blocks of the loop that read or dereference each named reference.
ReadsCreeperRef == {"hunter", "steveFlee", "steveExplode", "pigFlee", "pigExplode"}
ReadsSteveRef == {"steveFlee", "steveExplode", "term"}
ReadsPigRef == {"pigFlee", "pigExplode", "term"}
ReadsSunRef == {"sun"}

\* The pointer ref designates the element of the list constructed as id.
Designates(ref, id) == ref \in DOMAIN objects /\ objects[ref].id = id

(* C14. No stale named reference.  Wherever the loop reads or dereferences *)
(* steveRef, pigRef, sunRef or creeperRef and finds it non-null, it        *)
(* designates the object it was bound to in minecraftScene(): Steve, the   *)
(* pig, the sun child of the sky node, the Creeper; also once the other    *)
(* target has been erased and the later elements have moved down a slot.   *)
C14_NoStaleReference ==
    /\ (pc \in ReadsSteveRef /\ steveRef # NullRef) => Designates(steveRef, "Steve")
    /\ (pc \in ReadsPigRef /\ pigRef # NullRef) => Designates(pigRef, "pig")
    /\ (pc \in ReadsCreeperRef /\ creeperRef # NullRef) => Designates(creeperRef, "Creeper")
    /\ (pc \in ReadsSunRef /\ sunRef # "null") =>
           (InScene("sky") /\ ObjectOf("sky").children[1].id = "sun")

-----------------------------------------------------------------------------

\* The slots of the object list whose element is named n.
Named(n) == {i \in DOMAIN objects : objects[i].name = n}

(* C15. Hunter is never lost.  In every state of the frame loop the object *)
(* list holds exactly one object named "Creeper", which is the Creeper     *)
(* built by minecraftScene(); creeperRef is non-null and is the slot the   *)
(* name scan finds; so no erase of the loop has removed the Creeper and    *)
(* the re-scan after an erase has found it.                                *)
C15_HunterNeverLost ==
    /\ Cardinality(Named("Creeper")) = 1
    /\ \A i \in Named("Creeper") : objects[i].id = "Creeper"
    /\ creeperRef # NullRef
    /\ FindName(objects, "Creeper", 1) = creeperRef

\* Two erases have happened and the Creeper has moved down two slots.
C15_Witness ==
    /\ Len(objects) = NumTiles + 2 /\ creeperRef = NumTiles + 2
    /\ steveRef = NullRef /\ pigRef = NullRef

-----------------------------------------------------------------------------
(* C16. Day clock range and wrap.  The day clock is always in [0, 90) s    *)
(* once a tick's clock update is over; the update of a tick whose          *)
(* accumulated value sunTime + dt reaches 90 s or more leaves exactly 0,   *)
(* whatever the overshoot, and every other update leaves sunTime + dt; no  *)
(* other block of the loop changes the clock.                              *)
C16_ClockWrap ==
    /\ [](0 <= sunTime /\ sunTime < 180)
    /\ [][/\ (pc = "clock" /\ sunTime + deltaTime >= 180) => sunTime' = 0
          /\ (pc = "clock" /\ sunTime + deltaTime < 180) => sunTime' = sunTime + deltaTime
          /\ (pc # "clock") => sunTime' = sunTime]_vars

\* The second of two ticks of 51 s: 102 s were accumulated and 0 is left.
C16_Witness == pc = "sun" /\ tick = 2 /\ deltaTime = 102 /\ sunTime = 0

====
